---------------------------- MODULE Spec2Model ----------------------------
(***************************************************************************)
(* State-machine model of RingApi (src/api/api.ts): the one-shot topology  *)
(* build (fetchAndBuildLocations), the memoized `locations` promise and    *)
(* its callers, and the two polling pipelines of listenForCameraUpdates    *)
(* (status refresh: merge / throttleTime / debounceTime / switchMap;       *)
(* active dings: debounceTime / switchMap).                                *)
(*                                                                         *)
(* Time is discrete.  One step of Tick is Granularity milliseconds; every  *)
(* rxjs timer is a countdown that must fire before time moves past its due *)
(* instant, and events that fall on the same instant are taken in every    *)
(* order.                                                                  *)
(***************************************************************************)
EXTENDS Integers, Sequences, FiniteSets, TLC

(***************************************************************************)
(* Program constants and model bounds                                      *)
(***************************************************************************)
\* throttleTime(500), api.ts lines 68 and 80
ThrottleMs == 500
\* the factor of `cameraStatusPollingSeconds * 1000`, api.ts lines 71 and 110
MsPerSecond == 1000
\* length of one Tick in milliseconds: half a throttle window
Granularity == ThrottleMs \div 2
ThrottleTicks == ThrottleMs \div Granularity
\* mutant: the interval is handed to debounceTime in seconds
DebounceTicks_unscaled(seconds) == seconds \div Granularity

DebounceTicks(seconds) == (seconds * MsPerSecond) \div Granularity

\* largest configured cameraStatusPollingSeconds / cameraDingsPollingSeconds
MaxStatusSeconds == 2
MaxDingsSeconds == 1
\* most superseded-but-unresolved requests of one switchMap at a time
MaxStale == 1
\* most getLocations()/getCameras() calls made on one RingApi object
MaxCallers == 2

\* value of a timer that is not scheduled, and of a clock that never started
NoTimer == 0 - 1

(***************************************************************************)
(* Sequence helpers (Array.prototype.map / filter / includes / find)       *)
(***************************************************************************)
Includes(seq, x) == \E i \in DOMAIN seq : seq[i] = x

RECURSIVE Flatten(_)
Flatten(seqs) ==
  IF seqs = << >> THEN << >> ELSE Head(seqs) \o Flatten(Tail(seqs))

(***************************************************************************)
(* Data: what the vendor service holds for the account, and the responses  *)
(* it can give to the polling requests                                     *)
(***************************************************************************)
Loc(l) == [location_id |-> l]
Cam(i, l) == [id |-> i, location_id |-> l]
Hub(l) == [location_id |-> l]
Ding(i, d) == [id |-> i, doorbot_id |-> d]

World(locs, doorbots, stickupCams, baseStations, beamBridges) ==
  [user_locations |-> locs, doorbots |-> doorbots, stickup_cams |-> stickupCams,
   base_stations |-> baseStations, beams_bridges |-> beamBridges]

\* accounts explored together with the timed pipelines
PipelineWorlds ==
  { World(<<Loc("L1"), Loc("L2")>>, <<Cam(1, "L1")>>, <<Cam(2, "L2")>>,
          <<Hub("L1")>>, << >>),
    World(<<Loc("L1")>>, << >>, << >>, << >>, << >>) }

\* accounts explored for the graph build alone
GraphWorlds ==
  { World(locs, db, sc, bs, bb) :
      locs \in { <<Loc("L1")>>, <<Loc("L1"), Loc("L2")>>,
                 <<Loc("L2"), Loc("L1")>> },
      db \in { << >>, <<Cam(1, "L1")>>, <<Cam(1, "L2"), Cam(2, "L1")>> },
      sc \in { << >>, <<Cam(3, "L1")>>, <<Cam(3, "L2")>>, <<Cam(3, "L3")>> },
      bs \in { <<Hub("L1")>>, <<Hub("L3")>> },
      bb \in { << >>, <<Hub("L2")>> } }

\* options.locationIds: absent, or an array
NoLocationIds == [isArray |-> FALSE, items |-> << >>]
LocationIdList(items) == [isArray |-> TRUE, items |-> items]
PipelineLocationIds == { NoLocationIds, LocationIdList(<<"L2">>) }
GraphLocationIds ==
  { NoLocationIds, LocationIdList(<< >>), LocationIdList(<<"L2">>),
    LocationIdList(<<"L2", "L1">>) }

\* ring_devices responses during polling
DeviceResponse(doorbots, stickupCams) ==
  [doorbots |-> doorbots, stickup_cams |-> stickupCams,
   base_stations |-> << >>, beams_bridges |-> << >>]

DeviceResponses ==
  { DeviceResponse(<< >>, << >>),
    DeviceResponse(<<Cam(1, "L2")>>, << >>),
    DeviceResponse(<<Cam(1, "L1")>>, <<Cam(2, "L1")>>),
    DeviceResponse(<<Cam(3, "L1")>>, <<Cam(2, "L2")>>),
    DeviceResponse(<<Cam(1, "L1"), Cam(1, "L2")>>, << >>) }

\* responses of dings/active
DingResponses ==
  { << >>,
    <<Ding(10, 1)>>,
    <<Ding(10, 1), Ding(11, 2)>>,
    <<Ding(10, 2), Ding(11, 3), Ding(12, 2)>> }

VARIABLES
  options,        \* RingAlarmOptions given to the constructor
  server,         \* the account's data at the vendor service
  buildPc,        \* position of fetchAndBuildLocations / state of `locations`
  requests,       \* topology requests issued so far, per endpoint
  rawLocations,   \* fetchAndBuildLocations' local after its first await
  locations,      \* value the `locations` promise resolved to
  cameras,        \* the array handed to listenForCameraUpdates
  calls,          \* getLocations()/getCameras() calls made so far
  waiters,        \* callers whose continuation has not run yet
  observed,       \* outcomes the callers' continuations saw
  statusPipeline, \* "none" | "active" | "errored"
  innerThrottle,  \* timer of throttleTime on camerasRequestUpdate$
  outerThrottle,  \* timer of throttleTime on the merged stream
  statusDebounce, \* timer of debounceTime on updateReceived$
  fetchCur,       \* switchMap's current inner request is unresolved
  fetchStale,     \* superseded inner requests still unresolved
  lastCycle,      \* what the latest delivered cameraData was
  dingsPipeline,  \* "none" | "active" | "errored"
  dingsDebounce,  \* timer of debounceTime on poolForActiveDings$
  dingsCur,       \* current fetchActiveDings request is unresolved
  dingsStale,     \* superseded fetchActiveDings requests still unresolved
  lastDings,      \* what the latest delivered activeDings was
  sinceDings,     \* ticks since poolForActiveDings$ last got a value
  sinceFetch,     \* ticks since the status pipeline last started a fetch
  sinceApplied,   \* ticks since updateReceived$ last got a value
  ev              \* the step just taken and what it did

buildVars == <<buildPc, requests, rawLocations, locations, cameras>>
callerVars == <<calls, waiters, observed>>
statusVars == <<statusPipeline, innerThrottle, outerThrottle, statusDebounce,
                fetchCur, fetchStale, sinceFetch, sinceApplied, lastCycle>>
dingsVars == <<dingsPipeline, dingsDebounce, dingsCur, dingsStale, lastDings,
               sinceDings>>
vars == <<options, server, buildVars, callerVars, statusVars, dingsVars, ev>>

(***************************************************************************)
(* Promise settlements                                                     *)
(***************************************************************************)
Null == [isNull |-> TRUE, items |-> << >>]
Value(items) == [isNull |-> FALSE, items |-> items]
Fulfilled(v) == [state |-> "fulfilled", value |-> v]
Rejected == [state |-> "rejected", value |-> Null]

\* what a step reports about itself
Event(kind) ==
  [kind |-> kind, cam |-> 0, fetch |-> FALSE, gap |-> NoTimer,
   current |-> FALSE,
   elapsed |-> NoTimer, applied |-> FALSE, data |-> Null, calls |-> << >>,
   dingCalls |-> << >>]

\* `cameraStatusPollingSeconds ? ... : ...`: 0 stands for an option left out
Truthy(n) == n # 0

(***************************************************************************)
(* Domain objects built by the graph assembly.  ring-camera.ts and         *)
(* location.ts are not part of the sources at hand; the two constructors   *)
(* keep their arguments, and a camera's id is the id of its initial data.  *)
(***************************************************************************)
RingCamera(data, isDoorbot) ==
  [id |-> data.id, data |-> data, isDoorbot |-> isDoorbot]

Location(locationDetails, cams, hasHubDevice) ==
  [locationId |-> locationDetails.location_id, cameras |-> cams,
   hasHubDevice |-> hasHubDevice]

(***************************************************************************)
(* fetchRingDevices and fetchAndBuildLocations                             *)
(***************************************************************************)
\* fetchRingDevices' result object, from the response body
fetchRingDevices(body) ==
  [doorbots |-> body.doorbots,
   stickupCams |-> body.stickup_cams,
   allCameras |-> body.doorbots \o body.stickup_cams,
   baseStations |-> body.base_stations,
   beamBridges |-> body.beams_bridges]

\* mutant: beam bridges are left out
locationIdsWithHubs_baseOnly(baseStations, beamBridges) ==
  [i \in DOMAIN baseStations |-> baseStations[i].location_id]

\* [...baseStations, ...beamBridges].map(x => x.location_id)
locationIdsWithHubs(baseStations, beamBridges) ==
  LET hubs == baseStations \o beamBridges
  IN  [i \in DOMAIN hubs |-> hubs[i].location_id]

\* doorbots.concat(stickupCams).map(data => new RingCamera(data,
\* doorbots.includes(data), ...)); includes() compares object identity, and
\* the first Len(doorbots) elements of the concatenation are the doorbots
BuildCameras(doorbots, stickupCams) ==
  LET all == doorbots \o stickupCams
  IN  [i \in DOMAIN all |-> RingCamera(all[i], i <= Len(doorbots))]

\* mutant: the allow-list is not applied
LocationAllowed_all(location, locationIds) == TRUE

\* the predicate of rawLocations.filter(...)
LocationAllowed(location, locationIds) ==
  \/ ~locationIds.isArray
  \/ Includes(locationIds.items, location.location_id)

\* cameras.filter(x => x.data.location_id === location.location_id)
CamerasOf(cams, location) ==
  SelectSeq(cams, LAMBDA x : x.data.location_id = location.location_id)

\* rawLocations.filter(...).map(location => new Location(...))
BuildLocations(raw, cams, hubIds, locationIds) ==
  LET kept == SelectSeq(raw, LAMBDA l : LocationAllowed(l, locationIds))
  IN  [i \in DOMAIN kept |->
         Location(kept[i], CamerasOf(cams, kept[i]),
                  Includes(hubIds, kept[i].location_id))]

(***************************************************************************)
(* rxjs operators                                                          *)
(***************************************************************************)
\* mutant: the limiter is configured {leading: true, trailing: true}
Trailing_on == TRUE

\* throttleTime(500) runs with the default configuration, {leading: true,
\* trailing: false}: nothing is emitted when the window closes
Trailing == FALSE

\* mutant: no limiter, every value passes
Throttled_never(timer) == FALSE

\* throttleTime: `if (this.throttled)` the value is dropped (no trailing)
Throttled(timer) == timer # NoTimer

\* mutant: a pending timer is kept, so the tick runs on a fixed phase
DebounceNext_keep(timer, due) == IF timer = NoTimer THEN due ELSE timer

\* mutant: a value is emitted the moment it arrives
DebounceNext_immediate(timer, due) == 0

\* debounceTime: every value clears the pending timer and schedules anew
DebounceNext(timer, due) == due

\* mutant: a periodic timer, armed again the moment it fires
DebounceAfterEmit_periodic(due) == due

\* debounceTime: once the pending value is emitted no timer is left
DebounceAfterEmit(due) == NoTimer

\* mutant: the polling stream is EMPTY whatever the option
PollTimer_empty(seconds, timer) == timer

\* mutant: the debounced stream is built whatever the option
PollTimer_always(seconds, timer) ==
  DebounceNext(timer, DebounceTicks(seconds))

\* debounceTime(seconds * 1000) on a Subject, or EMPTY when seconds is falsy
PollTimer(seconds, timer) ==
  IF Truthy(seconds) THEN DebounceNext(timer, DebounceTicks(seconds))
  ELSE timer

\* mutant: the dings block sits inside `if (cameraStatusPollingSeconds)`
DingsConfigured_nested ==
  /\ Truthy(options.cameraDingsPollingSeconds)
  /\ Truthy(options.cameraStatusPollingSeconds)

\* `if (cameraDingsPollingSeconds)`, line 105
DingsConfigured == Truthy(options.cameraDingsPollingSeconds)

(***************************************************************************)
(* listenForCameraUpdates: what the call sets up                           *)
(***************************************************************************)
\* lines 61-131; with no camera the function returns before either pipeline
\* is subscribed
listenForCameraUpdates(cams) ==
  IF Len(cams) = 0
  THEN UNCHANGED <<statusVars, dingsVars>>
  ELSE /\ statusPipeline' = "active"
       /\ innerThrottle' = NoTimer
       /\ outerThrottle' = NoTimer
       /\ fetchCur' = FALSE
       /\ fetchStale' = 0
       /\ sinceFetch' = NoTimer
       /\ sinceApplied' = 0
       /\ lastCycle' = "none"
       \* updateReceived$.next() // kick off polling
       /\ statusDebounce' =
            PollTimer(options.cameraStatusPollingSeconds, NoTimer)
       /\ IF DingsConfigured
          THEN /\ dingsPipeline' = "active"
               \* poolForActiveDings$.next() // kick off pooling
               /\ dingsDebounce' =
                    DebounceNext(NoTimer,
                      DebounceTicks(options.cameraDingsPollingSeconds))
               /\ dingsCur' = FALSE
               /\ dingsStale' = 0
               /\ lastDings' = "none"
               /\ sinceDings' = 0
          ELSE UNCHANGED dingsVars

(***************************************************************************)
(* Initial state: the constructor has run, so the field initializer        *)
(* `locations = this.fetchAndBuildLocations()` has issued the first        *)
(* request and nothing else has happened.                                  *)
(***************************************************************************)
OptionsOver(locationIdChoices) ==
  [locationIds : locationIdChoices,
   cameraStatusPollingSeconds : 0 .. MaxStatusSeconds,
   cameraDingsPollingSeconds : 0 .. MaxDingsSeconds]

\* mutant: both topology requests are issued together at construction
RequestsAtStart_parallel == [locations |-> 1, ring_devices |-> 1]

\* the field initializer calls fetchAndBuildLocations, which runs up to its
\* first await: fetchRawLocations is issued, fetchRingDevices is not
RequestsAtStart == [locations |-> 1, ring_devices |-> 0]

Constructed ==
  /\ buildPc = "fetchRawLocations"
  /\ requests = RequestsAtStart
  /\ rawLocations = << >>
  /\ locations = << >>
  /\ cameras = << >>
  /\ calls = 0
  /\ waiters = [getLocations |-> 0, getCameras |-> 0]
  /\ observed = {}
  /\ statusPipeline = "none"
  /\ innerThrottle = NoTimer
  /\ outerThrottle = NoTimer
  /\ statusDebounce = NoTimer
  /\ fetchCur = FALSE
  /\ fetchStale = 0
  /\ lastCycle = "none"
  /\ dingsPipeline = "none"
  /\ dingsDebounce = NoTimer
  /\ dingsCur = FALSE
  /\ dingsStale = 0
  /\ lastDings = "none"
  /\ sinceDings = 0
  /\ sinceFetch = NoTimer
  /\ sinceApplied = 0
  /\ ev = Event("constructor")

Init ==
  /\ options \in OptionsOver(PipelineLocationIds)
  /\ server \in PipelineWorlds
  /\ Constructed

InitGraph ==
  /\ options \in OptionsOver(GraphLocationIds)
  /\ server \in GraphWorlds
  /\ Constructed

(***************************************************************************)
(* The topology build, one action per await of fetchAndBuildLocations      *)
(***************************************************************************)
\* `await this.fetchRawLocations()` settles
RawLocationsSettle(ok) ==
  /\ buildPc = "fetchRawLocations"
  /\ IF ok
     THEN /\ rawLocations' = server.user_locations
          \* the second request is issued only now
          /\ requests' = [requests EXCEPT !.ring_devices = @ + 1]
          /\ buildPc' = "fetchRingDevices"
     ELSE /\ buildPc' = "rejected"
          /\ UNCHANGED <<rawLocations, requests>>
  /\ ev' = Event("RawLocationsSettle")
  /\ UNCHANGED <<options, server, locations, cameras, callerVars,
                 statusVars, dingsVars>>

\* mutant: only the cameras of the retained locations are listened to
TrackedCameras_retained(cams, locs) ==
  Flatten([i \in DOMAIN locs |-> locs[i].cameras])

\* the argument of `this.listenForCameraUpdates(cameras)`, line 174
TrackedCameras(cams, locs) == cams

\* `await this.fetchRingDevices()` settles; on success the rest of the
\* function body runs to its return
RingDevicesSettle(ok) ==
  /\ buildPc = "fetchRingDevices"
  /\ IF ok
     THEN LET devices == fetchRingDevices(server)
              hubIds == locationIdsWithHubs(devices.baseStations,
                                            devices.beamBridges)
              cams == BuildCameras(devices.doorbots, devices.stickupCams)
              locs == BuildLocations(rawLocations, cams, hubIds,
                                     options.locationIds)
          IN  /\ cameras' = TrackedCameras(cams, locs)
              /\ locations' = locs
              /\ listenForCameraUpdates(TrackedCameras(cams, locs))
              /\ buildPc' = "resolved"
     ELSE /\ buildPc' = "rejected"
          /\ UNCHANGED <<locations, cameras, statusVars, dingsVars>>
  /\ ev' = Event("RingDevicesSettle")
  /\ UNCHANGED <<options, server, requests, rawLocations, callerVars>>

(***************************************************************************)
(* Callers of the memoized promise                                         *)
(***************************************************************************)
\* mutant: every call starts the build again instead of returning the field
getLocations_refetch ==
  /\ waiters' = [waiters EXCEPT !.getLocations = @ + 1]
  /\ buildPc' = "fetchRawLocations"
  /\ requests' = [requests EXCEPT !.locations = @ + 1]
  /\ UNCHANGED <<rawLocations, locations, cameras>>

\* getLocations() { return this.locations }: the caller awaits the field
getLocations ==
  /\ waiters' = [waiters EXCEPT !.getLocations = @ + 1]
  /\ UNCHANGED <<buildVars>>

\* getCameras(): `await this.locations`
getCameras ==
  /\ waiters' = [waiters EXCEPT !.getCameras = @ + 1]
  /\ UNCHANGED <<buildVars>>

Call ==
  /\ calls < MaxCallers
  /\ calls' = calls + 1
  /\ \/ getLocations /\ ev' = Event("getLocations")
     \/ getCameras /\ ev' = Event("getCameras")
  /\ UNCHANGED <<options, server, observed, statusVars, dingsVars>>

\* locations.reduce((cameras, location) => [...cameras, ...location.cameras], [])
FlattenCameras(locs) ==
  Flatten([i \in DOMAIN locs |-> locs[i].cameras])

\* what a continuation attached to the promise is handed
Outcome(method) ==
  IF buildPc = "rejected" THEN [method |-> method, state |-> "rejected",
                                value |-> << >>]
  ELSE [method |-> method, state |-> "fulfilled",
        value |-> IF method = "getCameras" THEN FlattenCameras(locations)
                  ELSE locations]

\* the continuation of one waiting caller runs
Observe(method) ==
  /\ buildPc \in {"resolved", "rejected"}
  /\ waiters[method] > 0
  /\ waiters' = [waiters EXCEPT ![method] = @ - 1]
  /\ observed' = observed \cup {Outcome(method)}
  /\ ev' = Event("Observe")
  /\ UNCHANGED <<options, server, buildVars, calls, statusVars, dingsVars>>

NextGraph ==
  \/ \E ok \in BOOLEAN : RawLocationsSettle(ok)
  \/ \E ok \in BOOLEAN : RingDevicesSettle(ok)
  \/ Call
  \/ \E m \in {"getLocations", "getCameras"} : Observe(m)

SpecGraph == InitGraph /\ [][NextGraph]_vars

(***************************************************************************)
(* Status-refresh pipeline (api.ts lines 66-103)                           *)
(***************************************************************************)
\* mutant: mergeMap, every settled request is delivered
Delivers_always(current) == TRUE

\* switchMap delivers a settled inner request only while it is the current
\* one; a newer outer value has unsubscribed every earlier inner request
Delivers(current) == current

\* mutant: the rejection is not caught
CatchNull_rethrow(p) == p

\* `.catch(() => null)`: a rejection becomes a fulfilment with null
CatchNull(p) == IF p.state = "rejected" THEN Fulfilled(Null) ELSE p

\* the async function given to switchMap, applied to the settled request:
\*   const response = await this.fetchRingDevices().catch(() => null)
\*   return response && response.allCameras
ProjectInventory(p) ==
  LET settled ==
        IF p.state = "fulfilled"
        THEN Fulfilled(Value(fetchRingDevices(p.value).allCameras))
        ELSE p
  IN  CatchNull(settled)

\* mutant: the predicate of find() accepts every camera
FindCamera_first(cams, id) == IF Len(cams) > 0 THEN 1 ELSE 0

\* cameras.find(x => x.id === id): index of the first match, 0 for undefined
FindCamera(cams, id) ==
  IF \E i \in DOMAIN cams : cams[i].id = id
  THEN CHOOSE i \in DOMAIN cams :
         /\ cams[i].id = id
         /\ \A j \in DOMAIN cams : cams[j].id = id => i <= j
  ELSE 0

\* cameraData.forEach(data => { const camera = ...find...; if (camera)
\* camera.updateData(data) }): the updateData calls made, in order
UpdateCalls(cams, items) ==
  LET hit == SelectSeq(items, LAMBDA d : FindCamera(cams, d.id) # 0)
  IN  [k \in DOMAIN hit |->
         [camera |-> FindCamera(cams, hit[k].id), arg |-> hit[k]]]

\* mutant: a record with an unknown id gets a camera of its own
TrackedAfter_push(cams, items) ==
  cams \o [k \in DOMAIN SelectSeq(items,
                         LAMBDA d : FindCamera(cams, d.id) = 0) |->
            RingCamera(SelectSeq(items,
                         LAMBDA d : FindCamera(cams, d.id) = 0)[k], FALSE)]

\* the `cameras` array after cameraData.forEach(...): the callback calls
\* updateData on the cameras it finds and never adds or removes one
TrackedAfter(cams, items) == cams

\* the body of subscribe(cameraData => ...), as the calls it makes
OnCameraData(cams, cameraData) ==
  IF cameraData.isNull THEN << >> ELSE UpdateCalls(cams, cameraData.items)

\* a value reaches throttleTime(500) of the merged stream and, when it
\* passes, switchMap, which starts a request and drops the previous one
MergedNext(passes) ==
  /\ passes /\ fetchCur => fetchStale < MaxStale
  /\ outerThrottle' = IF passes THEN ThrottleTicks ELSE outerThrottle
  /\ fetchCur' = (passes \/ fetchCur)
  /\ fetchStale' = IF passes /\ fetchCur THEN fetchStale + 1 ELSE fetchStale
  /\ sinceFetch' = IF passes THEN 0 ELSE sinceFetch

\* mutant: camerasRequestUpdate$ has no limiter of its own
InnerPasses_unlimited(timer) == TRUE

\* throttleTime(500) on the merged onRequestUpdate streams, lines 66-68: a
\* request passes when that limiter's window is not open
InnerPasses(timer) == ~Throttled(timer)

\* camera c emits onRequestUpdate
RequestUpdate(c) ==
  /\ statusPipeline = "active"
  /\ LET inner == InnerPasses(innerThrottle)
         passes == inner /\ ~Throttled(outerThrottle)
     IN  /\ innerThrottle' = IF inner THEN ThrottleTicks ELSE innerThrottle
         /\ MergedNext(passes)
         /\ ev' = [Event("RequestUpdate") EXCEPT
                     !.cam = c, !.fetch = passes, !.gap = sinceFetch,
                     !.elapsed = sinceApplied]
  /\ UNCHANGED <<options, server, buildVars, callerVars, statusPipeline,
                 statusDebounce, sinceApplied, lastCycle, dingsVars>>

\* the debounceTime timer on updateReceived$ expires: an automatic tick
PollFire ==
  /\ statusPipeline = "active"
  /\ statusDebounce = 0
  /\ statusDebounce' =
       DebounceAfterEmit(DebounceTicks(options.cameraStatusPollingSeconds))
  /\ LET passes == ~Throttled(outerThrottle)
     IN  /\ MergedNext(passes)
         /\ ev' = [Event("PollFire") EXCEPT
                     !.fetch = passes, !.gap = sinceFetch,
                     !.elapsed = sinceApplied]
  /\ UNCHANGED <<options, server, buildVars, callerVars, statusPipeline,
                 innerThrottle, sinceApplied, lastCycle, dingsVars>>

\* the timer of the throttleTime on camerasRequestUpdate$ expires
InnerThrottleClear ==
  /\ innerThrottle = 0
  /\ innerThrottle' = NoTimer
  /\ LET passes == Trailing /\ ~Throttled(outerThrottle)
     IN  /\ MergedNext(passes)
         /\ ev' = [Event("InnerThrottleClear") EXCEPT
                     !.fetch = passes, !.gap = sinceFetch]
  /\ UNCHANGED <<options, server, buildVars, callerVars, statusPipeline,
                 statusDebounce, sinceApplied, lastCycle, dingsVars>>

\* the timer of the throttleTime on the merged stream expires
OuterThrottleClear ==
  /\ outerThrottle = 0
  /\ outerThrottle' = NoTimer
  /\ Trailing /\ fetchCur => fetchStale < MaxStale
  /\ fetchCur' = (Trailing \/ fetchCur)
  /\ fetchStale' = IF Trailing /\ fetchCur THEN fetchStale + 1 ELSE fetchStale
  /\ sinceFetch' = IF Trailing THEN 0 ELSE sinceFetch
  /\ ev' = [Event("OuterThrottleClear") EXCEPT
              !.fetch = Trailing, !.gap = sinceFetch]
  /\ UNCHANGED <<options, server, buildVars, callerVars, statusPipeline,
                 innerThrottle, statusDebounce, sinceApplied, lastCycle,
                 dingsVars>>

\* a ring_devices request of the pipeline settles with p; `current` tells
\* whether it is the request switchMap is still subscribed to
InventorySettle(current, p) ==
  /\ statusPipeline = "active"
  /\ IF current
     THEN fetchCur /\ fetchCur' = FALSE /\ UNCHANGED fetchStale
     ELSE fetchStale > 0 /\ fetchStale' = fetchStale - 1 /\ UNCHANGED fetchCur
  /\ LET cameraData == ProjectInventory(p)
     IN  IF ~Delivers(current)
         THEN /\ ev' = [Event("InventorySettle") EXCEPT !.current = current]
              /\ UNCHANGED <<statusPipeline, statusDebounce, sinceApplied,
                             lastCycle, cameras>>
         ELSE IF cameraData.state = "rejected"
         THEN \* an error notification ends the subscription
              /\ statusPipeline' = "errored"
              /\ ev' = Event("InventorySettle")
              /\ UNCHANGED <<statusDebounce, sinceApplied, lastCycle,
                             cameras>>
         ELSE \* subscribe(cameraData => { updateReceived$.next(); ... })
              /\ statusDebounce' =
                   PollTimer(options.cameraStatusPollingSeconds,
                             statusDebounce)
              /\ sinceApplied' = 0
              /\ lastCycle' =
                   IF cameraData.value.isNull THEN "no data" ELSE "data"
              /\ ev' = [Event("InventorySettle") EXCEPT
                          !.applied = TRUE,
                          !.current = current,
                          !.elapsed = sinceApplied,
                          !.data = cameraData.value,
                          !.calls = OnCameraData(cameras, cameraData.value)]
              /\ cameras' =
                   IF cameraData.value.isNull THEN cameras
                   ELSE TrackedAfter(cameras, cameraData.value.items)
              /\ UNCHANGED statusPipeline
  /\ UNCHANGED <<options, server, buildPc, requests, rawLocations, locations,
                 callerVars, innerThrottle, outerThrottle, sinceFetch,
                 dingsVars>>

InventoryOutcomes == {Rejected} \cup {Fulfilled(r) : r \in DeviceResponses}

(***************************************************************************)
(* Active-dings pipeline (api.ts lines 105-130)                            *)
(***************************************************************************)
\* mutant: the rejection of fetchActiveDings reaches the stream
ProjectDings_nocatch(p) ==
  IF p.state = "fulfilled" THEN Fulfilled(Value(p.value)) ELSE p

\* switchMap(() => this.fetchActiveDings().catch(() => null))
ProjectDings(p) ==
  CatchNull(IF p.state = "fulfilled" THEN Fulfilled(Value(p.value)) ELSE p)

\* mutant: every camera is handed the whole list
DingsFor_all(camera, activeDings) == activeDings

\* activeDings.filter(ding => ding.doorbot_id === camera.id)
DingsFor(camera, activeDings) ==
  SelectSeq(activeDings, LAMBDA ding : ding.doorbot_id = camera.id)

\* mutant: cameras without a matching ding are skipped
OnActiveDings_skipEmpty(cams, activeDings) ==
  IF activeDings.isNull
  THEN << >>
  ELSE SelectSeq([i \in DOMAIN cams |->
                    [camera |-> i,
                     arg |-> DingsFor(cams[i], activeDings.items)]],
                 LAMBDA c : Len(c.arg) > 0)

\* the body of subscribe(activeDings => ...), as the processActiveDings
\* calls it makes, in order
OnActiveDings(cams, activeDings) ==
  IF activeDings.isNull \/ Len(activeDings.items) = 0
  THEN << >>
  ELSE [i \in DOMAIN cams |->
          [camera |-> i, arg |-> DingsFor(cams[i], activeDings.items)]]

\* the debounceTime timer on poolForActiveDings$ expires: switchMap starts
\* a dings/active request
DingsFire ==
  /\ dingsPipeline = "active"
  /\ dingsDebounce = 0
  /\ dingsCur => dingsStale < MaxStale
  /\ dingsDebounce' =
       DebounceAfterEmit(DebounceTicks(options.cameraDingsPollingSeconds))
  /\ dingsCur' = TRUE
  /\ dingsStale' = IF dingsCur THEN dingsStale + 1 ELSE dingsStale
  /\ ev' = [Event("DingsFire") EXCEPT !.elapsed = sinceDings]
  /\ UNCHANGED <<options, server, buildVars, callerVars, statusVars,
                 dingsPipeline, lastDings, sinceDings>>

\* a dings/active request settles with p
DingsSettle(current, p) ==
  /\ dingsPipeline = "active"
  /\ IF current
     THEN dingsCur /\ dingsCur' = FALSE /\ UNCHANGED dingsStale
     ELSE dingsStale > 0 /\ dingsStale' = dingsStale - 1 /\ UNCHANGED dingsCur
  /\ LET activeDings == ProjectDings(p)
     IN  IF ~Delivers(current)
         THEN /\ ev' = Event("DingsSettle")
              /\ UNCHANGED <<dingsPipeline, dingsDebounce, lastDings,
                             sinceDings>>
         ELSE IF activeDings.state = "rejected"
         THEN /\ dingsPipeline' = "errored"
              /\ ev' = Event("DingsSettle")
              /\ UNCHANGED <<dingsDebounce, lastDings, sinceDings>>
         ELSE \* subscribe(activeDings => { poolForActiveDings$.next(); ... })
              /\ dingsDebounce' =
                   DebounceNext(dingsDebounce,
                     DebounceTicks(options.cameraDingsPollingSeconds))
              /\ sinceDings' = 0
              /\ lastDings' =
                   IF activeDings.value.isNull THEN "no data" ELSE "data"
              /\ ev' = [Event("DingsSettle") EXCEPT
                          !.applied = TRUE,
                          !.current = current,
                          !.data = activeDings.value,
                          !.dingCalls = OnActiveDings(cameras, activeDings.value)]
              /\ UNCHANGED dingsPipeline
  /\ UNCHANGED <<options, server, buildVars, callerVars, statusVars>>

DingsOutcomes == {Rejected} \cup {Fulfilled(r) : r \in DingResponses}

(***************************************************************************)
(* Passage of time                                                         *)
(***************************************************************************)
Timers == {innerThrottle, outerThrottle, statusDebounce, dingsDebounce}

CountDown(timer) == IF timer > 0 THEN timer - 1 ELSE timer

\* a clock that saturates at cap; NoTimer while it has not been started
Advance(clock, cap) ==
  IF clock = NoTimer THEN NoTimer
  ELSE IF clock < cap THEN clock + 1 ELSE cap

\* Granularity milliseconds pass; no timer is overdue
Tick ==
  /\ statusPipeline # "none"
  /\ 0 \notin Timers
  /\ innerThrottle' = CountDown(innerThrottle)
  /\ outerThrottle' = CountDown(outerThrottle)
  /\ statusDebounce' = CountDown(statusDebounce)
  /\ dingsDebounce' = CountDown(dingsDebounce)
  /\ sinceFetch' = Advance(sinceFetch, ThrottleTicks)
  /\ sinceApplied' =
       Advance(sinceApplied, DebounceTicks(options.cameraStatusPollingSeconds))
  /\ sinceDings' =
       Advance(sinceDings, DebounceTicks(options.cameraDingsPollingSeconds))
  /\ ev' = Event("Tick")
  /\ UNCHANGED <<options, server, buildVars, callerVars, statusPipeline,
                 fetchCur, fetchStale, lastCycle, dingsPipeline, dingsCur,
                 dingsStale, lastDings>>

Next ==
  \/ \E ok \in BOOLEAN : RawLocationsSettle(ok)
  \/ \E ok \in BOOLEAN : RingDevicesSettle(ok)
  \/ \E c \in DOMAIN cameras : RequestUpdate(c)
  \/ PollFire
  \/ InnerThrottleClear
  \/ OuterThrottleClear
  \/ \E current \in BOOLEAN, p \in InventoryOutcomes :
       InventorySettle(current, p)
  \/ DingsFire
  \/ \E current \in BOOLEAN, p \in DingsOutcomes : DingsSettle(current, p)
  \/ Tick

Spec == Init /\ [][Next]_vars

\* Scheduling: time passes, a due timer runs its callback, and every request
\* made to the vendor service settles.  Refresh requests are up to the
\* cameras and get no fairness.
Fairness ==
  /\ WF_vars(Tick)
  /\ WF_vars(PollFire)
  /\ WF_vars(InnerThrottleClear)
  /\ WF_vars(OuterThrottleClear)
  /\ WF_vars(\E p \in InventoryOutcomes : InventorySettle(TRUE, p))
  /\ WF_vars(\E p \in InventoryOutcomes : InventorySettle(FALSE, p))
  /\ WF_vars(DingsFire)
  /\ WF_vars(\E p \in DingsOutcomes : DingsSettle(TRUE, p))
  /\ WF_vars(\E p \in DingsOutcomes : DingsSettle(FALSE, p))

SpecLive == Spec /\ Fairness

(***************************************************************************)
(* Properties                                                              *)
(***************************************************************************)
StatusMs == options.cameraStatusPollingSeconds * MsPerSecond

\* the step just taken started an inventory fetch of the status pipeline
FetchStarted == ev.kind \in {"RequestUpdate", "PollFire"} /\ ev.fetch

\* the step just taken delivered a cameraData value to the subscriber
InventoryApplied == ev.kind = "InventorySettle" /\ ev.applied

\* C1: two inventory fetches started by the status pipeline are at least
\* 500 ms apart, whether refresh requests or automatic ticks started them;
\* a refresh request inside the window of an earlier fetch starts none.
C1_FetchesThrottled ==
  /\ FetchStarted =>
       (ev.gap = NoTimer \/ ev.gap * Granularity >= ThrottleMs)
  /\ (ev.kind = "RequestUpdate" /\ ev.gap # NoTimer
        /\ ev.gap * Granularity < ThrottleMs) => ~ev.fetch

\* a refresh request is dropped inside the window of an earlier fetch
C1_Witness ==
  /\ ev.kind = "RequestUpdate"
  /\ ~ev.fetch
  /\ ev.gap # NoTimer
  /\ ev.gap * Granularity < ThrottleMs
  /\ ev.cam = 2

\* C2 (as stated): with status polling configured and cameras present, an
\* inventory fetch has been started as soon as the pipeline exists.
C2_FetchAtStart ==
  (statusPipeline = "active" /\ Truthy(options.cameraStatusPollingSeconds))
    => sinceFetch # NoTimer

\* C2 (amended): pipeline start starts no inventory fetch; it arms the
\* polling timer with the full interval, and a first fetch that no refresh
\* request preceded is started exactly one interval after pipeline start.
C2_FirstTickAfterInterval ==
  /\ (ev.kind = "RingDevicesSettle" /\ statusPipeline = "active"
        /\ Truthy(options.cameraStatusPollingSeconds)) =>
       /\ ~fetchCur
       /\ sinceFetch = NoTimer
       /\ statusDebounce * Granularity = StatusMs
  /\ (ev.kind = "PollFire" /\ ev.gap = NoTimer) =>
       /\ ev.fetch
       /\ ev.elapsed * Granularity = StatusMs

\* the first fetch is started by the automatic tick, a full interval late
C2_Witness ==
  /\ ev.kind = "PollFire"
  /\ ev.gap = NoTimer
  /\ ev.fetch
  /\ options.cameraStatusPollingSeconds = 1

\* the state a delivered rejection leaves is the one a success leaves
C3_AfterRejection ==
  /\ statusPipeline # "errored"
  /\ (InventoryApplied /\ ev.data.isNull) =>
       /\ ev.calls = << >>
       /\ statusPipeline = "active"
       /\ ~fetchCur
       /\ sinceApplied = 0
       /\ Truthy(options.cameraStatusPollingSeconds) =>
            statusDebounce * Granularity = StatusMs

\* a trigger that finds the limiters open starts a fetch although the
\* latest delivered cycle was a rejection
C3_NextTriggerFetches ==
  (/\ lastCycle = "no data"
   /\ outerThrottle = NoTimer
   /\ \/ ev'.kind = "PollFire"
      \/ ev'.kind = "RequestUpdate" /\ innerThrottle = NoTimer)
    => (ev'.fetch /\ fetchCur' /\ sinceFetch' = 0
          /\ outerThrottle' = ThrottleTicks)

\* C3: a rejected inventory fetch leaves the pipeline subscribed, makes no
\* updateData call, and the next trigger that passes the limiter starts a
\* fetch as after a success.
C3_RejectionSwallowed ==
  []C3_AfterRejection /\ [][C3_NextTriggerFetches]_vars

\* a fetch is started after the latest delivered cycle was a rejection
C3_Witness ==
  /\ lastCycle = "no data"
  /\ FetchStarted
  /\ ev.kind = "RequestUpdate"

\* the updateData calls of the step just taken that went to camera i
CallsTo(i) == SelectSeq(ev.calls, LAMBDA c : c.camera = i)
\* the records of the applied result that carry the id of camera i
RecordsFor(i) == SelectSeq(ev.data.items, LAMBDA d : d.id = cameras[i].id)

\* C4: when an inventory result is applied, each tracked camera gets
\* updateData once per returned record with its id, with that record, in
\* order; cameras without a record and records without a camera get no
\* call, and the tracked set stays as built.
C4_UpdateDataByCameraId ==
  InventoryApplied =>
    /\ \A k \in DOMAIN ev.calls : ev.calls[k].camera \in DOMAIN cameras
    /\ \A i \in DOMAIN cameras :
         /\ Len(CallsTo(i)) = Len(RecordsFor(i))
         /\ \A k \in DOMAIN CallsTo(i) : CallsTo(i)[k].arg = RecordsFor(i)[k]
    /\ cameras = BuildCameras(server.doorbots, server.stickup_cams)

\* a result with a record for camera 2, none for camera 1 and one for an
\* id that is not tracked
C4_Witness ==
  /\ InventoryApplied
  /\ ev.data.items = <<Cam(3, "L1"), Cam(2, "L2")>>
  /\ ev.calls = <<[camera |-> 2, arg |-> Cam(2, "L2")]>>

\* the step just taken delivered an active-dings list to the subscriber
DingsApplied == ev.kind = "DingsSettle" /\ ev.applied

\* C5: in an active-dings cycle a camera is handed only fetched dings whose
\* doorbot_id is its own id, and is called at most once.
C5_DingsPartitioned ==
  DingsApplied =>
    /\ \A k \in DOMAIN ev.dingCalls :
         LET call == ev.dingCalls[k]
         IN  /\ call.camera \in DOMAIN cameras
             /\ \A n \in DOMAIN call.arg :
                  /\ call.arg[n].doorbot_id = cameras[call.camera].id
                  /\ Includes(ev.data.items, call.arg[n])
    /\ \A k1, k2 \in DOMAIN ev.dingCalls :
         ev.dingCalls[k1].camera = ev.dingCalls[k2].camera => k1 = k2

\* a cycle whose list holds dings of both cameras and of an unknown one
C5_Witness ==
  /\ DingsApplied
  /\ ev.data.items = <<Ding(10, 2), Ding(11, 3), Ding(12, 2)>>
  /\ \E k \in DOMAIN ev.dingCalls : Len(ev.dingCalls[k].arg) = 2

\* outcomes the callers of one method saw
Seen(method) == {o \in observed : o.method = method}

\* C6: the topology is requested and built once per RingApi object: each
\* of the two build requests is issued at most once whatever calls are
\* made and whenever, all callers see one outcome (getCameras the cameras
\* of the list getLocations gives, or the same failure), and a failed build
\* stays failed.
C6_BuiltOnce ==
  /\ requests.locations <= 1
  /\ requests.ring_devices <= 1
  /\ \A o1, o2 \in observed :
       /\ o1.state = o2.state
       /\ o1.method = o2.method => o1 = o2
       /\ (o1.method = "getLocations" /\ o2.method = "getCameras"
             /\ o1.state = "fulfilled") => o2.value = FlattenCameras(o1.value)
  /\ \A o \in observed : (o.state = "rejected") <=> (buildPc = "rejected")
  /\ buildPc = "rejected" => (locations = << >> /\ statusPipeline = "none")

\* a getLocations() and a getCameras() caller have both seen the built graph
C6_Witness ==
  /\ calls = MaxCallers
  /\ \E o \in Seen("getLocations") : o.state = "fulfilled" /\ Len(o.value) = 2
  /\ \E o \in Seen("getCameras") : o.state = "fulfilled" /\ Len(o.value) = 2

\* the ids of the raw locations the allow-list lets through, in raw order
ExpectedLocationIds ==
  LET raw == server.user_locations
      kept == SelectSeq(raw, LAMBDA l :
                ~options.locationIds.isArray
                  \/ l.location_id \in
                       {options.locationIds.items[n] :
                          n \in DOMAIN options.locationIds.items})
  IN  [i \in DOMAIN kept |-> kept[i].location_id]

\* the cameras of location id l: its doorbots, then its stickup cams
ExpectedCameras(l) ==
  LET db == SelectSeq(server.doorbots, LAMBDA d : d.location_id = l)
      sc == SelectSeq(server.stickup_cams, LAMBDA d : d.location_id = l)
  IN  [i \in DOMAIN db |-> [id |-> db[i].id, data |-> db[i],
                            isDoorbot |-> TRUE]]
      \o [i \in DOMAIN sc |-> [id |-> sc[i].id, data |-> sc[i],
                               isDoorbot |-> FALSE]]

\* C7: getLocations() resolves to the raw locations the allow-list lets
\* through, in raw order (all of them without an allow-list), each with
\* exactly the cameras of its location_id, doorbots before stickup cams.
C7_LocationsFiltered ==
  \A o \in Seen("getLocations") :
    o.state = "fulfilled" =>
      /\ [i \in DOMAIN o.value |-> o.value[i].locationId] = ExpectedLocationIds
      /\ \A i \in DOMAIN o.value :
           o.value[i].cameras = ExpectedCameras(o.value[i].locationId)

\* locationIds = ["L2"] over raw locations L1, L2: one location, L2, holding
\* a doorbot and a stickup cam
C7_Witness ==
  /\ options.locationIds = LocationIdList(<<"L2">>)
  /\ Len(server.user_locations) = 2
  /\ \E o \in Seen("getLocations") :
       /\ o.state = "fulfilled"
       /\ Len(o.value) = 1
       /\ o.value[1].locationId = "L2"
       /\ Len(o.value[1].cameras) = 2
       /\ Len(cameras) = 3

\* C8: a returned location has hasHubDevice exactly when a base station or
\* a beam bridge of the fetched inventory carries its location_id; the
\* allow-list plays no part.
C8_HasHubDevice ==
  \A o \in Seen("getLocations") :
    o.state = "fulfilled" =>
      \A i \in DOMAIN o.value :
        o.value[i].hasHubDevice <=>
          \/ \E n \in DOMAIN server.base_stations :
               server.base_stations[n].location_id = o.value[i].locationId
          \/ \E n \in DOMAIN server.beams_bridges :
               server.beams_bridges[n].location_id = o.value[i].locationId

\* under an allow-list, a location whose only hub is a beam bridge
C8_Witness ==
  /\ options.locationIds.isArray
  /\ \E o \in Seen("getLocations") :
       /\ o.state = "fulfilled"
       /\ \E i \in DOMAIN o.value :
            /\ o.value[i].hasHubDevice
            /\ o.value[i].locationId = "L2"
            /\ server.base_stations = <<Hub("L3")>>

\* C9: switchMap keeps the latest fetch only.  A superseded fetch that
\* settles makes no updateData call and leaves the polling timer alone;
\* a result is applied only when the most recently started fetch settles.
C9_StaleIgnored ==
  /\ fetchStale' < fetchStale =>
       /\ ev'.kind = "InventorySettle"
       /\ ~ev'.applied
       /\ ev'.calls = << >>
       /\ UNCHANGED <<statusDebounce, sinceApplied, lastCycle, fetchCur>>
  /\ (ev'.kind = "InventorySettle" /\ ev'.applied) =>
       (fetchCur /\ ~fetchCur' /\ fetchStale' = fetchStale)

C9_LatestWins == [][C9_StaleIgnored]_vars

\* a superseded fetch settles after the newer one was applied
C9_Witness ==
  /\ ev.kind = "InventorySettle"
  /\ ~ev.applied
  /\ ~ev.current
  /\ ~fetchCur
  /\ lastCycle = "data"

\* C10: with status polling configured, every delivered resolution, data
\* or not, restarts the polling timer with the full interval, and the
\* automatic tick fires only a full interval after the latest delivered
\* resolution (or after pipeline start).
C10_SelfResettingTimer ==
  Truthy(options.cameraStatusPollingSeconds) =>
    /\ InventoryApplied => statusDebounce * Granularity = StatusMs
    /\ ev.kind = "PollFire" => ev.elapsed * Granularity = StatusMs
    /\ statusDebounce # NoTimer =>
         (statusDebounce + sinceApplied) * Granularity = StatusMs

\* an automatic tick fires a full interval after a rejection restarted a
\* timer that had already run for part of its interval
C10_Witness ==
  /\ ev.kind = "PollFire"
  /\ lastCycle = "no data"
  /\ ev.fetch

\* the status pipeline is subscribed and status polling is configured
StatusPolling ==
  statusPipeline = "active" /\ Truthy(options.cameraStatusPollingSeconds)

\* while status polling runs, a fetch is outstanding or the timer is armed
C11_NeverIdle == StatusPolling => (fetchCur \/ statusDebounce # NoTimer)

\* C11: with status polling configured (whole seconds, so at least 1 s),
\* cameras present and every request settling, the pipeline is never left
\* with no fetch outstanding and no timer armed, and it starts inventory
\* fetches again and again in every interleaving.
C11_PollingNeverStalls ==
  []C11_NeverIdle /\ (StatusPolling ~> FetchStarted)

\* the limiter drops an automatic tick: the timer is spent, and the fetch
\* still outstanding is what re-arms it
C11_Witness ==
  /\ StatusPolling
  /\ ev.kind = "PollFire"
  /\ ~ev.fetch
  /\ statusDebounce = NoTimer
  /\ fetchCur

\* the status pipeline is subscribed and no status interval is configured
NoStatusPolling ==
  statusPipeline = "active" /\ options.cameraStatusPollingSeconds = 0

\* C12: with no status-polling interval the automatic stream never fires:
\* its timer is never armed, pipeline start leaves no fetch outstanding,
\* and every inventory fetch is started by a refresh request that passed
\* both limiters; applying a resolution starts none and arms nothing.
C12_NoPollingWithoutInterval ==
  NoStatusPolling =>
    /\ statusDebounce = NoTimer
    /\ ev.kind # "PollFire"
    /\ ev.fetch => ev.kind = "RequestUpdate"
    /\ ev.kind = "RingDevicesSettle" => ~fetchCur /\ sinceFetch = NoTimer
    /\ InventoryApplied => ~fetchCur

\* a requested fetch has resolved and been applied, and the pipeline is
\* left idle
C12_Witness ==
  /\ NoStatusPolling
  /\ InventoryApplied
  /\ ~fetchCur
  /\ statusDebounce = NoTimer

\* a refresh request arrives while a limiter window is open: it starts no
\* fetch, extends no open window and leaves nothing behind for later
C13_DroppedForGood ==
  (/\ ev'.kind = "RequestUpdate"
   /\ (innerThrottle # NoTimer \/ outerThrottle # NoTimer)) =>
    /\ ~ev'.fetch
    /\ UNCHANGED <<fetchCur, fetchStale, sinceFetch, outerThrottle>>
    /\ innerThrottle # NoTimer => UNCHANGED innerThrottle

\* a limiter window closes: no fetch is started at that moment
C13_NoTrailingEmission ==
  (ev'.kind \in {"InnerThrottleClear", "OuterThrottleClear"}) =>
    /\ ~ev'.fetch
    /\ UNCHANGED <<fetchCur, fetchStale, sinceFetch>>

\* C13: the limiter is leading-edge only: a refresh request inside an open
\* 500 ms window starts no inventory fetch and changes nothing the pipeline
\* remembers, and the closing of a window starts no fetch either.
C13_LeadingEdgeOnly ==
  [][C13_DroppedForGood /\ C13_NoTrailingEmission]_vars

\* a request was dropped although no fetch is outstanding any more
C13_Witness ==
  /\ ev.kind = "RequestUpdate"
  /\ ~ev.fetch
  /\ innerThrottle # NoTimer
  /\ ~fetchCur

\* the configured active-dings interval in milliseconds
DingsMs == options.cameraDingsPollingSeconds * MsPerSecond

\* at most one fetchActiveDings request exists, and while it is outstanding
\* no timer is pending; a timer that fires has run its full interval since
\* poolForActiveDings$ last got a value
C14_OneAtATime ==
  /\ dingsStale = 0
  /\ dingsCur => dingsDebounce = NoTimer
  /\ ev.kind = "DingsFire" => ev.elapsed * Granularity = DingsMs

\* a fetchActiveDings request appears only when the pipeline's own timer
\* fires, that timer is armed only at setup or when the pipeline applies a
\* resolution, and no step of the status pipeline touches the dings side
C14_OwnCompletionOnly ==
  /\ (dingsCur' /\ ~dingsCur) =>
       ev'.kind = "DingsFire" /\ dingsDebounce = 0
  /\ (dingsDebounce' # NoTimer /\ dingsDebounce = NoTimer) =>
       \/ ev'.kind = "RingDevicesSettle"
       \/ ev'.kind = "DingsSettle" /\ ev'.applied /\ dingsCur /\ ~dingsCur'
  /\ ev'.kind \in {"RequestUpdate", "PollFire", "InventorySettle",
                   "InnerThrottleClear", "OuterThrottleClear"} =>
       UNCHANGED dingsVars

\* C14: the active-dings pipeline is strictly serial: at most one fetch is
\* outstanding, the next one starts only once the previous has resolved
\* and a full interval has passed since, and nothing but the pipeline's
\* own timer starts a fetch.
C14_DingsSerial ==
  []C14_OneAtATime /\ [][C14_OwnCompletionOnly]_vars

\* a second fetch starts, one full interval after an earlier resolution,
\* while the status pipeline has a fetch of its own outstanding
C14_Witness ==
  /\ ev.kind = "DingsFire"
  /\ lastDings # "none"
  /\ dingsCur
  /\ fetchCur

\* the step just taken built the active-dings pipeline
DingsSetUp == ev.kind = "RingDevicesSettle" /\ dingsPipeline = "active"

\* the statement as written: the first fetchActiveDings request is issued
\* at setup
C15_FetchAtSetup == DingsSetUp => dingsCur

\* C15: when the active-dings pipeline is built, the kick-off only arms the
\* debounce timer with the full interval: no fetch is outstanding at setup
\* or at any time before the timer first fires, and the first fetch starts
\* one full interval after setup; each firing starts one fetch.
C15_FirstDingsAfterInterval ==
  /\ DingsSetUp =>
       /\ ~dingsCur
       /\ dingsDebounce # NoTimer
       /\ dingsDebounce * Granularity = DingsMs
  /\ (dingsPipeline = "active" /\ lastDings = "none"
        /\ dingsDebounce # NoTimer) => ~dingsCur
  /\ (ev.kind = "DingsFire" /\ lastDings = "none") =>
       /\ ev.elapsed * Granularity = DingsMs
       /\ dingsCur
       /\ dingsStale = 0

\* the first fetchActiveDings request starts, no result delivered before
C15_Witness ==
  /\ ev.kind = "DingsFire"
  /\ lastDings = "none"
  /\ dingsCur

\* the dings of the applied result addressed to camera i
MatchingDings(i) ==
  SelectSeq(ev.data.items, LAMBDA ding : ding.doorbot_id = cameras[i].id)

\* the applied result is a list with at least one ding
DingsNonEmpty == ~ev.data.isNull /\ Len(ev.data.items) > 0

\* the statement as written: a camera is called only when at least one
\* fetched ding is addressed to it
C16_NoCallWithoutMatch ==
  DingsApplied =>
    \A k \in DOMAIN ev.dingCalls : Len(ev.dingCalls[k].arg) > 0

\* C16: in a cycle with a non-empty result every tracked camera gets
\* exactly one processActiveDings call, in camera order, with the dings
\* whose doorbot_id is its id, an empty list when none matches; with an
\* empty or null result no camera gets a call.
C16_EveryCameraCalled ==
  DingsApplied =>
    IF DingsNonEmpty
    THEN /\ Len(ev.dingCalls) = Len(cameras)
         /\ \A i \in DOMAIN cameras :
              /\ ev.dingCalls[i].camera = i
              /\ ev.dingCalls[i].arg = MatchingDings(i)
    ELSE ev.dingCalls = << >>

\* a camera none of the fetched dings is addressed to is called with an
\* empty list
C16_Witness ==
  /\ DingsApplied
  /\ DingsNonEmpty
  /\ \E k \in DOMAIN ev.dingCalls :
       /\ ev.dingCalls[k].arg = << >>
       /\ MatchingDings(ev.dingCalls[k].camera) = << >>

\* the step just taken delivered the "no data" of a failed dings fetch
DingsFailed == DingsApplied /\ ev.data.isNull

\* a failed dings fetch makes no call and no error, and arms the timer
\* with the full interval; the pipeline is never torn down, and the fetch
\* that follows a failure starts a full interval after it
C17_NoCallNoError ==
  /\ dingsPipeline # "errored"
  /\ DingsFailed =>
       /\ ev.dingCalls = << >>
       /\ ~dingsCur
       /\ dingsDebounce # NoTimer
       /\ dingsDebounce * Granularity = DingsMs
  /\ (ev.kind = "DingsFire" /\ lastDings = "no data") =>
       ev.elapsed * Granularity = DingsMs

\* C17: a failed active-dings fetch is swallowed: no processActiveDings
\* call, no error, and the next fetch is scheduled a full interval later;
\* so once the pipeline is built, with every request settling, a fetch is
\* issued again and again, also after a failure.
C17_DingsFailureSwallowed ==
  /\ []C17_NoCallNoError
  /\ (dingsPipeline = "active") ~> (ev.kind = "DingsFire")
  /\ DingsFailed ~> (ev.kind = "DingsFire" /\ lastDings = "no data")

\* the fetch that follows a failed one starts
C17_Witness ==
  /\ ev.kind = "DingsFire"
  /\ lastDings = "no data"
  /\ dingsCur

\* the statement as written: once the build is done, a positive dings
\* interval alone decides that the active-dings pipeline runs
C18_IntervalAlone ==
  (buildPc = "resolved" /\ options.cameraDingsPollingSeconds > 0) =>
    dingsPipeline = "active"

\* C18: the active-dings pipeline is built exactly when a positive dings
\* interval is configured and the camera set is not empty (with no camera
\* the setup returns before building anything), whatever the status
\* interval; once built it always has a fetch outstanding or a timer armed.
C18_BuiltWithCamerasAndInterval ==
  /\ buildPc # "resolved" => dingsPipeline = "none"
  /\ buildPc = "resolved" =>
       (dingsPipeline = "active" <=>
          (options.cameraDingsPollingSeconds > 0 /\ Len(cameras) > 0))
  /\ dingsPipeline = "active" => (dingsCur \/ dingsDebounce # NoTimer)

\* the pipeline polls although no status interval is configured
C18_Witness ==
  /\ options.cameraStatusPollingSeconds = 0
  /\ ev.kind = "DingsFire"
  /\ dingsCur

\* the entity graph: the tracked cameras with their ids, and the locations
\* with their camera lists
Graph == <<cameras, locations>>

\* C19: once the initial build is done no step of either pipeline changes
\* graph membership: the tracked cameras and their ids, the locations and
\* their camera lists stay as built, and every updateData and
\* processActiveDings call goes to a camera of the tracked set.
C19_GraphFrame ==
  [][buildPc = "resolved" =>
       /\ UNCHANGED Graph
       /\ \A k \in DOMAIN ev'.calls : ev'.calls[k].camera \in DOMAIN cameras
       /\ \A k \in DOMAIN ev'.dingCalls :
            ev'.dingCalls[k].camera \in DOMAIN cameras]_vars

\* a result is applied that carries a record no tracked camera has the id
\* of, and the tracked set is what the build made of the account
C19_Witness ==
  /\ InventoryApplied
  /\ ~ev.data.isNull
  /\ \E k \in DOMAIN ev.data.items : FindCamera(cameras, ev.data.items[k].id) = 0
  /\ Len(cameras) = Len(server.doorbots) + Len(server.stickup_cams)

\* the cameras of the account, as ring_devices lists them
AccountCameras == server.doorbots \o server.stickup_cams

\* the location id is kept out by the locationIds allow-list
LocationExcluded(l) ==
  options.locationIds.isArray /\ ~Includes(options.locationIds.items, l)

\* ids of the account's cameras that sit in an excluded location
HiddenIds ==
  { AccountCameras[k].id : k \in
      { j \in DOMAIN AccountCameras :
          LocationExcluded(AccountCameras[j].location_id) } }

\* positions in the tracked set of the cameras with a hidden id
HiddenTracked == { i \in DOMAIN cameras : cameras[i].id \in HiddenIds }

\* C20: a camera whose location the allow-list excludes is in no location
\* handed out by getLocations() or getCameras(), yet it is in the tracked
\* set: its refresh request starts an inventory fetch when no limiter
\* window is open, it gets updateData for every applied record with its
\* id, and a processActiveDings call in every cycle with a non-empty
\* result.
C20_HiddenCamerasTracked ==
  /\ buildPc = "resolved" =>
       \A h \in HiddenIds :
         /\ \A k \in DOMAIN FlattenCameras(locations) :
              FlattenCameras(locations)[k].id # h
         /\ \E i \in DOMAIN cameras : cameras[i].id = h
  /\ (ev.kind = "RequestUpdate" /\ ev.cam \in HiddenTracked
        /\ ev.gap = NoTimer) => ev.fetch /\ fetchCur
  /\ (InventoryApplied /\ ~ev.data.isNull) =>
       \A i \in HiddenTracked :
         /\ Len(CallsTo(i)) = Len(RecordsFor(i))
         /\ \A k \in DOMAIN CallsTo(i) : CallsTo(i)[k].arg = RecordsFor(i)[k]
  /\ (DingsApplied /\ DingsNonEmpty) =>
       \A i \in HiddenTracked :
         \E k \in DOMAIN ev.dingCalls :
           /\ ev.dingCalls[k].camera = i
           /\ ev.dingCalls[k].arg = MatchingDings(i)

\* a camera of an excluded location gets updateData from a fetch that its
\* own kind of request can start, while the dings pipeline runs as well
C20_Witness ==
  /\ InventoryApplied
  /\ \E i \in HiddenTracked : Len(CallsTo(i)) > 0
  /\ HiddenIds # {}
  /\ dingsPipeline = "active"

\* no polling pipeline exists and nothing of one is pending
NoPipeline ==
  /\ statusPipeline = "none"
  /\ dingsPipeline = "none"
  /\ ~fetchCur /\ fetchStale = 0
  /\ ~dingsCur /\ dingsStale = 0
  /\ Timers = {NoTimer}
  /\ sinceFetch = NoTimer

\* the build asks for the locations first and for the devices only once
\* the locations have arrived; until both have, and for good when either
\* fails, there is no pipeline and no coordinator fetch
C21_BuildBeforePipelines ==
  /\ requests.locations = 1
  /\ requests.ring_devices <= 1
  /\ buildPc = "fetchRawLocations" => requests.ring_devices = 0
  /\ buildPc = "fetchRingDevices" =>
       requests.ring_devices = 1 /\ rawLocations = server.user_locations
  /\ (buildPc = "rejected" /\ ev.kind = "RawLocationsSettle") =>
       requests.ring_devices = 0
  /\ buildPc # "resolved" => NoPipeline
  /\ (ev.fetch \/ ev.kind \in {"PollFire", "DingsFire", "InventorySettle",
                               "DingsSettle", "RequestUpdate"}) =>
       buildPc = "resolved"

\* listenForCameraUpdates runs in one step only, the one in which the
\* second request succeeds and the build resolves; a settled build stays
\* settled and issues no request
C21_StartedOnce ==
  /\ (statusPipeline = "none" /\ statusPipeline' # "none") =>
       /\ buildPc = "fetchRingDevices" /\ buildPc' = "resolved"
       /\ ev'.kind = "RingDevicesSettle"
  /\ (dingsPipeline = "none" /\ dingsPipeline' # "none") =>
       /\ buildPc = "fetchRingDevices" /\ buildPc' = "resolved"
       /\ ev'.kind = "RingDevicesSettle"
  /\ ev'.kind = "RingDevicesSettle" => buildPc = "fetchRingDevices"
  /\ buildPc \in {"resolved", "rejected"} => UNCHANGED <<buildPc, requests>>

\* C21: the update coordinator is started at most once and only after
\* both topology requests succeeded: locations are requested first,
\* devices second; when either fails the build rejects, the other request
\* is not issued, and no pipeline and no coordinator fetch ever exists.
C21_CoordinatorAfterBuild ==
  []C21_BuildBeforePipelines /\ [][C21_StartedOnce]_vars

\* the second topology request failed: the build is rejected with both
\* requests issued and nothing started
C21_Witness ==
  /\ buildPc = "rejected"
  /\ ev.kind = "RingDevicesSettle"
  /\ requests.ring_devices = 1
  /\ NoPipeline

\* the step just taken was a refresh request that started no fetch
RequestDropped == ev.kind = "RequestUpdate" /\ ~ev.fetch

\* the statement as written: a request is dropped only while the window
\* that the latest fetch start opened, 500 ms long, is still open (a
\* request at the very instant the two windows expire together is left
\* out of the statement)
C22_DroppedOnlyAfterFetch ==
  RequestDropped => (outerThrottle # NoTimer \/ innerThrottle = 0)

\* the window of the limiter on the merged stream is open exactly during
\* the 500 ms that follow a fetch start
C22_OuterWindowIsFetchWindow ==
  /\ outerThrottle # NoTimer =>
       sinceFetch # NoTimer /\ sinceFetch + outerThrottle = ThrottleTicks
  /\ (sinceFetch # NoTimer /\ sinceFetch < ThrottleTicks) =>
       outerThrottle # NoTimer
  /\ RequestDropped => (innerThrottle # NoTimer \/ outerThrottle # NoTimer)

\* a request starts a fetch exactly when neither limiter window is open;
\* a request that finds the requests' own window not open opens it for
\* 500 ms even when the merged limiter drops it, and a request that finds
\* it open is dropped whatever the merged limiter's state
C22_TwoLimiters ==
  ev'.kind = "RequestUpdate" =>
    /\ ev'.fetch <=> (innerThrottle = NoTimer /\ outerThrottle = NoTimer)
    /\ innerThrottle = NoTimer => innerThrottle' = ThrottleTicks
    /\ innerThrottle # NoTimer => ~ev'.fetch /\ UNCHANGED innerThrottle

\* C22: a refresh request is dropped only while a limiter window is open:
\* the merged limiter's, open for 500 ms after a fetch start, or the
\* request limiter's, open for 500 ms after a request passed it, dropped
\* further on or not; with neither open the request starts a fetch.
C22_DroppedOnlyInAWindow ==
  []C22_OuterWindowIsFetchWindow /\ [][C22_TwoLimiters]_vars

\* a request is dropped by the request limiter alone: no fetch was started
\* in the last 500 ms and the merged limiter's window is not open
C22_Witness ==
  /\ RequestDropped
  /\ outerThrottle = NoTimer
  /\ innerThrottle > 0
  /\ ev.gap = ThrottleTicks

=============================================================================
